---- MODULE Spec2Model ----
(***************************************************************************)
(* Model of scaler_pca.py: a one-shot preprocessing script.  The script    *)
(* reads a table, mean-imputes the numeric columns, label-encodes the      *)
(* categorical columns, splits rows 80/20, standardises, fits a PCA that   *)
(* keeps 80% of the variance and dumps the scaler and the PCA to disk.     *)
(*                                                                         *)
(* Numbers are exact rationals <<p, q>> (q > 0, lowest terms); a missing   *)
(* cell (NaN) is <<0, 0>>.  A standardised cell is kept symbolically as    *)
(* the pair (centred value, squared scale), standing for c / sqrt(s2).     *)
(* Categorical (text) values are modelled by integers in their sort order. *)
(* Row labels are 1..n (pandas uses 0..n-1).                               *)
(*                                                                         *)
(* Every statement of the script is a library call; each is modelled by    *)
(* what the library does with it:                                          *)
(*   SimpleImputer(mean)  column means of the observed cells; a column     *)
(*                        with no observed cell is dropped by transform    *)
(*   LabelEncoder         classes_ = sorted distinct values, refit by      *)
(*                        every fit_transform                              *)
(*   train_test_split     n_test = ceil(0.2 n), n_train = n - n_test, one  *)
(*                        permutation for all arrays; the permutation of   *)
(*                        random_state=42 is left open                     *)
(*   StandardScaler       population mean and variance, zero scale -> 1    *)
(*   PCA(0.8)             searchsorted(cumsum(ratio), 0.8, 'right') + 1;   *)
(*                        the eigenvalues are not computed: the spectrum   *)
(*                        is an open input sv, cut at the rank of the      *)
(*                        centred training matrix                          *)
(*   joblib.dump          may fail before or while writing the file        *)
(***************************************************************************)
EXTENDS Integers, Sequences, FiniteSets, TLC

(* ---------------- bounds ---------------- *)
MaxRows == 3        \* rows of the table in Spec and SpecEnc
MaxRowsPca == 4     \* rows of the table in SpecPca
MaxVal == 2         \* numeric cells range over NaN, 1..MaxVal
MaxCat == 3         \* categorical cells range over 1..MaxCat in SpecEnc
MaxEv == 5          \* singular-spectrum weights range over 1..MaxEv in SpecPca

(* ---------------- rationals ---------------- *)
RECURSIVE GCD(_, _)
GCD(a, b) == IF b = 0 THEN a ELSE GCD(b, a % b)

Abs(a) == IF a < 0 THEN -a ELSE a

Norm(p, q) ==
  LET g == GCD(Abs(p), Abs(q))
      s == IF q < 0 THEN -1 ELSE 1
  IN <<(s * p) \div g, (s * q) \div g>>

NaN == <<0, 0>>
IsNaN(x) == x[2] = 0
R(i) == <<i, 1>>
RAdd(x, y) == Norm(x[1] * y[2] + y[1] * x[2], x[2] * y[2])
RSub(x, y) == Norm(x[1] * y[2] - y[1] * x[2], x[2] * y[2])
RMul(x, y) == Norm(x[1] * y[1], x[2] * y[2])
RDivInt(x, n) == Norm(x[1], x[2] * n)
RLess(x, y) == x[1] * y[2] < y[1] * x[2]

RECURSIVE RSum(_)
RSum(s) == IF s = <<>> THEN R(0) ELSE RAdd(Head(s), RSum(Tail(s)))

SelectNotNaN(s) == SelectSeq(s, LAMBDA x : ~IsNaN(x))

\* numpy mean of a non-empty sequence
RMean(s) == RDivInt(RSum(s), Len(s))

\* numpy population variance (ddof = 0): mean of squares minus squared mean
RVar(s) == RSub(RMean([i \in 1..Len(s) |-> RMul(s[i], s[i])]),
                RMul(RMean(s), RMean(s)))

(* ---------------- the table ---------------- *)
TargetCol == "Life expectancy"
numeric_columns == {"x1", TargetCol}
categorical_columns == <<"c1", "c2">>
CatSet == {categorical_columns[i] : i \in 1..Len(categorical_columns)}
AllColumns == numeric_columns \cup CatSet
FeatureColumns == AllColumns \ {TargetCol}

NumCells == {NaN} \cup {R(v) : v \in 1..MaxVal}
CatCells(m) == {R(v) : v \in 1..m}

Range(s) == {s[i] : i \in 1..Len(s)}
Iota(n) == [i \in 1..n |-> i]
NRows(frame) == Len(frame.index)

VARIABLES
  pc,              \* next statement of the script
  error,           \* exception that ended the run, "none" while running
  df,              \* the table, mutated in place by lines 20 and 25
  orig,            \* history: the table as read by line 12
  num_imputer,     \* SimpleImputer state
  le,              \* LabelEncoder state (one object, refit per column)
  col_i,           \* loop position of line 24
  features, target,
  X_train, X_test, y_train, y_test,
  scaler,          \* StandardScaler state
  X_train_scaled, X_test_scaled,
  pca,             \* PCA state
  X_train_pca, X_test_pca,
  files,           \* scaler.pkl and pca.pkl on disk
  bound,           \* what the names scaler and pca refer to (lines 44-45)
  sv,              \* the singular spectrum the SVD of line 40 will return
  log              \* history: fits, transforms and the split, in order

vars == <<pc, error, df, orig, num_imputer, le, col_i, features, target,
          X_train, X_test, y_train, y_test, scaler, X_train_scaled,
          X_test_scaled, pca, X_train_pca, X_test_pca, files, bound, sv, log>>

NoError == [type |-> "none", line |-> 0]
Raise(t, l) == [type |-> t, line |-> l]

NoFrame == [index |-> <<>>, data |-> <<>>]
Unfit == [fitted |-> FALSE]

\* descending triples of positive weights
Spectra(m) == {s \in [1..3 -> 1..m] : s[1] >= s[2] /\ s[2] >= s[3]}

InitRest ==
  /\ pc = "impute"
  /\ error = NoError
  /\ orig = df
  /\ num_imputer = Unfit
  /\ le = Unfit
  /\ col_i = 1
  /\ features = NoFrame /\ target = NoFrame
  /\ X_train = NoFrame /\ X_test = NoFrame
  /\ y_train = NoFrame /\ y_test = NoFrame
  /\ scaler = Unfit
  /\ X_train_scaled = NoFrame /\ X_test_scaled = NoFrame
  /\ pca = [fitted |-> FALSE, n_fits |-> 0]
  /\ X_train_pca = NoFrame /\ X_test_pca = NoFrame
  /\ files = [f \in {"scaler.pkl", "pca.pkl"} |-> "untouched"]
  /\ bound = [nm \in {"scaler", "pca"} |-> "estimator"]
  /\ log = <<>>

\* the table read by line 12, from its four columns
Table(x, y, c1, c2) ==
  [index |-> Iota(Len(x)),
   data |-> [col \in AllColumns |->
               CASE col = "x1" -> x
                 [] col = TargetCol -> y
                 [] col = "c1" -> c1
                 [] OTHER -> c2]]

\* Spec: x1 varies and may hold missing cells; the target of row i is i,
\* with at most one row (the first or the last) missing; c1 alternates and
\* c2 is constant
Init ==
  /\ \E n \in 1..MaxRows :
       \E x \in [1..n -> NumCells], miss \in {0, 1, n} :
         df = Table(x, [i \in 1..n |-> IF i = miss THEN NaN ELSE R(i)],
                    [i \in 1..n |-> R(1 + (i % 2))], [i \in 1..n |-> R(1)])
  /\ sv = <<4, 1, 1>>
  /\ InitRest

(* ---------------- SimpleImputer(strategy='mean') ---------------- *)
\* variant: the statistics come from the leading (training-sized) rows only
ImputerStatisticsLeading(frame, cols) ==
  [col \in cols |->
     LET n == NRows(frame)
         present == SelectNotNaN(SubSeq(frame.data[col], 1, n - ((n + 4) \div 5)))
     IN IF present = <<>> THEN NaN ELSE RMean(present)]

\* statistics_: per column the mean of the non-missing cells, NaN if none
ImputerStatistics(frame, cols) ==
  [col \in cols |->
     LET present == SelectNotNaN(frame.data[col])
     IN IF present = <<>> THEN NaN ELSE RMean(present)]

\* variant: missing cells are filled with 0
ImputerTransformZero(frame, cols, stats) ==
  [index |-> frame.index,
   data |-> [col \in DOMAIN frame.data |->
               IF col \in cols
               THEN [i \in 1..NRows(frame) |->
                       IF IsNaN(frame.data[col][i]) THEN R(0)
                       ELSE frame.data[col][i]]
               ELSE frame.data[col]]]

\* transform: a missing cell takes the column's statistic
ImputerTransform(frame, cols, stats) ==
  [index |-> frame.index,
   data |-> [col \in DOMAIN frame.data |->
               IF col \in cols
               THEN [i \in 1..NRows(frame) |->
                       IF IsNaN(frame.data[col][i]) THEN stats[col]
                       ELSE frame.data[col][i]]
               ELSE frame.data[col]]]

\* line 20: a column with no observed value is dropped by transform, and
\* the assignment of the narrower array to df[numeric_columns] raises
Impute ==
  /\ pc = "impute"
  /\ LET stats == ImputerStatistics(df, numeric_columns)
     IN /\ num_imputer' = [fitted |-> TRUE, statistics_ |-> stats]
        /\ log' = Append(log, "imputer.fit")
        /\ IF \E col \in numeric_columns : IsNaN(stats[col])
           THEN /\ pc' = "failed" /\ error' = Raise("ValueError", 20)
                /\ UNCHANGED df
           ELSE /\ df' = ImputerTransform(df, numeric_columns, stats)
                /\ pc' = "encode"
                /\ UNCHANGED error
  /\ UNCHANGED <<orig, le, col_i, features, target, X_train, X_test,
                 y_train, y_test, scaler, X_train_scaled, X_test_scaled,
                 pca, X_train_pca, X_test_pca, files, bound, sv>>

(* ---------------- LabelEncoder ---------------- *)
\* sorted sequence of the distinct values of a column
RECURSIVE SortSet(_)
SortSet(S) ==
  IF S = {} THEN <<>>
  ELSE LET m == CHOOSE x \in S : \A y \in S : ~RLess(y, x)
       IN <<m>> \o SortSet(S \ {m})

\* variant: fit keeps the classes of the previous fit
LabelEncoderFitKeep(enc, column) ==
  [fitted |-> TRUE,
   classes_ |-> SortSet(Range(column) \cup
                        (IF enc.fitted THEN Range(enc.classes_) ELSE {}))]

\* fit: classes_ is rebuilt from the column alone
LabelEncoderFit(enc, column) ==
  [fitted |-> TRUE, classes_ |-> SortSet(Range(column))]

\* transform: position of the value in classes_, counted from 0
LabelEncoderTransform(enc, column) ==
  [i \in 1..Len(column) |->
     R((CHOOSE j \in 1..Len(enc.classes_) : enc.classes_[j] = column[i]) - 1)]

\* lines 24-25, one iteration
Encode ==
  /\ pc = "encode"
  /\ col_i <= Len(categorical_columns)
  /\ LET col == categorical_columns[col_i]
         enc == LabelEncoderFit(le, df.data[col])
     IN /\ le' = enc
        /\ df' = [df EXCEPT !.data[col] = LabelEncoderTransform(enc, df.data[col])]
  /\ col_i' = col_i + 1
  /\ pc' = IF col_i = Len(categorical_columns) THEN "separate" ELSE "encode"
  /\ UNCHANGED <<error, orig, num_imputer, features, target, X_train, X_test,
                 y_train, y_test, scaler, X_train_scaled, X_test_scaled,
                 pca, X_train_pca, X_test_pca, files, bound, sv, log>>

(* ---------------- features / target, train_test_split ---------------- *)
\* lines 28-29
Separate ==
  /\ pc = "separate"
  /\ target' = [index |-> df.index, data |-> df.data[TargetCol]]
  /\ features' = [index |-> df.index,
                  data |-> [col \in FeatureColumns |-> df.data[col]]]
  /\ pc' = "split"
  /\ UNCHANGED <<error, df, orig, num_imputer, le, col_i, X_train, X_test,
                 y_train, y_test, scaler, X_train_scaled, X_test_scaled,
                 pca, X_train_pca, X_test_pca, files, bound, sv, log>>

\* variant: n_test rounded down
NTestFloor(n) == n \div 5

\* n_test = ceil(test_size * n_samples) with test_size = 0.2
NTest(n) == (n + 4) \div 5
\* train_size is None: n_train = n_samples - n_test
NTrain(n) == n - NTest(n)

IndexPermutations(n) ==
  {p \in [1..n -> 1..n] : \A i, j \in 1..n : p[i] = p[j] => i = j}

\* ShuffleSplit: the first n_test positions of the permutation are the test
\* rows, the next n_train the training rows
TestIdx(perm) == SubSeq(perm, 1, NTest(Len(perm)))
TrainIdx(perm) == SubSeq(perm, NTest(Len(perm)) + 1, Len(perm))

\* frame.iloc[idx]
TakeFrame(frame, idx) ==
  [index |-> [i \in 1..Len(idx) |-> frame.index[idx[i]]],
   data |-> [col \in DOMAIN frame.data |->
               [i \in 1..Len(idx) |-> frame.data[col][idx[i]]]]]

\* variant: the series is taken in the opposite order
TakeSeriesReversed(series, idx) ==
  [index |-> [i \in 1..Len(idx) |-> series.index[idx[Len(idx) + 1 - i]]],
   data |-> [i \in 1..Len(idx) |-> series.data[idx[Len(idx) + 1 - i]]]]

\* series.iloc[idx]
TakeSeries(series, idx) ==
  [index |-> [i \in 1..Len(idx) |-> series.index[idx[i]]],
   data |-> [i \in 1..Len(idx) |-> series.data[idx[i]]]]

\* line 32: the permutation of random_state=42 is left open; an empty
\* training set raises
Split ==
  /\ pc = "split"
  /\ LET n == NRows(features)
     IN IF NTrain(n) = 0
        THEN /\ pc' = "failed" /\ error' = Raise("ValueError", 32)
             /\ UNCHANGED <<X_train, X_test, y_train, y_test, log>>
        ELSE \E perm \in IndexPermutations(n) :
               /\ X_train' = TakeFrame(features, TrainIdx(perm))
               /\ X_test' = TakeFrame(features, TestIdx(perm))
               /\ y_train' = TakeSeries(target, TrainIdx(perm))
               /\ y_test' = TakeSeries(target, TestIdx(perm))
               /\ log' = Append(log, "split")
               /\ pc' = "scale_train"
               /\ UNCHANGED error
  /\ UNCHANGED <<df, orig, num_imputer, le, col_i, features, target, scaler,
                 X_train_scaled, X_test_scaled, pca, X_train_pca, X_test_pca,
                 files, bound, sv>>

(* ---------------- StandardScaler ---------------- *)
\* variant: a zero scale is kept
HandleZerosKeep(v) == v

\* _handle_zeros_in_scale: a zero scale is replaced by 1
HandleZerosInScale(v) == IF v = R(0) THEN R(1) ELSE v

\* fit: mean_, var_ and the square of scale_ per column of X
ScalerFit(X) ==
  [fitted |-> TRUE,
   mean_ |-> [col \in DOMAIN X.data |-> RMean(X.data[col])],
   var_ |-> [col \in DOMAIN X.data |-> RVar(X.data[col])],
   scale2_ |-> [col \in DOMAIN X.data |-> HandleZerosInScale(RVar(X.data[col]))]]

\* variant: transform standardises with the statistics of its own input
ScalerTransformOwnStats(st, X) ==
  [index |-> X.index,
   data |-> [col \in DOMAIN X.data |->
               [i \in 1..NRows(X) |->
                  [c |-> RSub(X.data[col][i], RMean(X.data[col])),
                   s2 |-> HandleZerosInScale(RVar(X.data[col]))]]]]

\* transform: (x - mean_) / scale_ with the stored statistics
ScalerTransform(st, X) ==
  [index |-> X.index,
   data |-> [col \in DOMAIN X.data |->
               [i \in 1..NRows(X) |->
                  [c |-> RSub(X.data[col][i], st.mean_[col]),
                   s2 |-> st.scale2_[col]]]]]

\* line 36
ScalerFitTransformTrain ==
  /\ pc = "scale_train"
  /\ scaler' = ScalerFit(X_train)
  /\ X_train_scaled' = ScalerTransform(ScalerFit(X_train), X_train)
  /\ log' = log \o <<"scaler.fit", "scaler.transform(train)">>
  /\ pc' = "scale_test"
  /\ UNCHANGED <<error, df, orig, num_imputer, le, col_i, features, target,
                 X_train, X_test, y_train, y_test, X_test_scaled, pca,
                 X_train_pca, X_test_pca, files, bound, sv>>

\* line 37
ScalerTransformTest ==
  /\ pc = "scale_test"
  /\ X_test_scaled' = ScalerTransform(scaler, X_test)
  /\ log' = Append(log, "scaler.transform(test)")
  /\ pc' = "pca_train"
  /\ UNCHANGED <<error, df, orig, num_imputer, le, col_i, features, target,
                 X_train, X_test, y_train, y_test, scaler, X_train_scaled,
                 pca, X_train_pca, X_test_pca, files, bound, sv>>

(* ---------------- PCA(n_components=0.8) ---------------- *)
Min(a, b) == IF a < b THEN a ELSE b

\* columns of a standardised matrix that are not identically zero
NonConstantCols(Xs) ==
  {col \in DOMAIN Xs.data : \E i \in 1..NRows(Xs) : Xs.data[col][i].c # R(0)}

\* rank of the centred matrix: at most n_samples - 1 and at most the number
\* of non-constant columns
PcaRank(Xs) == Min(NRows(Xs) - 1, Cardinality(NonConstantCols(Xs)))

\* explained variances in descending order, one per component
\* (min(n_samples, n_features) of them); components beyond the rank carry 0
ExplainedVariance(Xs, spectrum) ==
  [i \in 1..Min(NRows(Xs), Cardinality(DOMAIN Xs.data)) |->
     IF i <= PcaRank(Xs) THEN spectrum[i] ELSE 0]

RECURSIVE SumSeq(_)
SumSeq(s) == IF s = <<>> THEN 0 ELSE Head(s) + SumSeq(Tail(s))

\* cumulative sum of the first j entries
CumSum(ev, j) == SumSeq(SubSeq(ev, 1, j))

\* variant: searchsorted with side='left'
NComponentsLeft(ev) ==
  IF SumSeq(ev) = 0 THEN 1
  ELSE Cardinality({j \in 1..Len(ev) : 5 * CumSum(ev, j) < 4 * SumSeq(ev)}) + 1

\* _fit_full, 0 < n_components < 1:
\*   searchsorted(cumsum(explained_variance_ratio_), 0.8, side='right') + 1
\* i.e. one more than the number of prefixes whose ratio is <= 0.8.  With a
\* total variance of 0 every ratio is NaN, which sorts after 0.8.
NComponents(ev) ==
  IF SumSeq(ev) = 0 THEN 1
  ELSE Cardinality({j \in 1..Len(ev) : 5 * CumSum(ev, j) <= 4 * SumSeq(ev)}) + 1

PcaFit(p, Xs, spectrum) ==
  [fitted |-> TRUE,
   n_fits |-> p.n_fits + 1,
   fit_on |-> Xs,
   explained_variance_ |-> ExplainedVariance(Xs, spectrum),
   n_components_ |-> NComponents(ExplainedVariance(Xs, spectrum))]

\* projection on the retained components: same rows, n_components_ columns
PcaTransform(p, Xs) ==
  [index |-> Xs.index, data |-> <<>>, k |-> p.n_components_, by |-> p.fit_on.index]

\* line 40
PcaFitTransformTrain ==
  /\ pc = "pca_train"
  /\ pca' = PcaFit(pca, X_train_scaled, sv)
  /\ X_train_pca' = PcaTransform(PcaFit(pca, X_train_scaled, sv), X_train_scaled)
  /\ log' = log \o <<"pca.fit", "pca.transform(train)">>
  /\ pc' = "pca_test"
  /\ UNCHANGED <<error, df, orig, num_imputer, le, col_i, features, target,
                 X_train, X_test, y_train, y_test, scaler, X_train_scaled,
                 X_test_scaled, X_test_pca, files, bound, sv>>

\* variant of line 41: fit_transform on the test partition
PcaFitTransformTest ==
  /\ pc = "pca_test"
  /\ pca' = PcaFit(pca, X_test_scaled, sv)
  /\ X_test_pca' = PcaTransform(PcaFit(pca, X_test_scaled, sv), X_test_scaled)
  /\ log' = log \o <<"pca.fit", "pca.transform(test)">>
  /\ pc' = "dump_scaler"
  /\ UNCHANGED <<error, df, orig, num_imputer, le, col_i, features, target,
                 X_train, X_test, y_train, y_test, scaler, X_train_scaled,
                 X_test_scaled, X_train_pca, files, bound, sv>>

\* line 41
PcaTransformTest ==
  /\ pc = "pca_test"
  /\ X_test_pca' = PcaTransform(pca, X_test_scaled)
  /\ log' = Append(log, "pca.transform(test)")
  /\ pc' = "dump_scaler"
  /\ UNCHANGED <<error, df, orig, num_imputer, le, col_i, features, target,
                 X_train, X_test, y_train, y_test, scaler, X_train_scaled,
                 X_test_scaled, pca, X_train_pca, files, bound, sv>>

(* ---------------- joblib.dump ---------------- *)
\* the file is written whole, or the open fails (file untouched), or the
\* write fails part-way (file truncated); a failure raises OSError
DumpOutcomes == {"written", "untouched", "partial"}

\* line 44: the name scaler is rebound to the list of file names
DumpScaler ==
  /\ pc = "dump_scaler"
  /\ \E out \in DumpOutcomes :
       /\ files' = [files EXCEPT !["scaler.pkl"] = out]
       /\ IF out = "written"
          THEN /\ pc' = "dump_pca"
               /\ bound' = [bound EXCEPT !["scaler"] = "filenames"]
               /\ UNCHANGED error
          ELSE /\ pc' = "failed" /\ error' = Raise("OSError", 44)
               /\ UNCHANGED bound
  /\ log' = Append(log, "dump(scaler)")
  /\ UNCHANGED <<df, orig, num_imputer, le, col_i, features, target,
                 X_train, X_test, y_train, y_test, scaler, X_train_scaled,
                 X_test_scaled, pca, X_train_pca, X_test_pca, sv>>

\* line 45
DumpPca ==
  /\ pc = "dump_pca"
  /\ \E out \in DumpOutcomes :
       /\ files' = [files EXCEPT !["pca.pkl"] = out]
       /\ IF out = "written"
          THEN /\ pc' = "done"
               /\ bound' = [bound EXCEPT !["pca"] = "filenames"]
               /\ UNCHANGED error
          ELSE /\ pc' = "failed" /\ error' = Raise("OSError", 45)
               /\ UNCHANGED bound
  /\ log' = Append(log, "dump(pca)")
  /\ UNCHANGED <<df, orig, num_imputer, le, col_i, features, target,
                 X_train, X_test, y_train, y_test, scaler, X_train_scaled,
                 X_test_scaled, pca, X_train_pca, X_test_pca, sv>>

Next == Impute \/ Encode \/ Separate \/ Split \/ ScalerFitTransformTrain
        \/ ScalerTransformTest \/ PcaFitTransformTrain \/ PcaTransformTest
        \/ DumpScaler \/ DumpPca

Spec == Init /\ [][Next]_vars

\* SpecEnc: c1 varies; c2 is constant, or alternates, or is c1 with every
\* value replaced by its cyclic successor; the numeric columns are fixed
InitEnc ==
  /\ \E n \in 1..MaxRows :
       \E c1 \in [1..n -> CatCells(MaxCat)] :
         \E c2 \in {[i \in 1..n |-> R(MaxCat)],
                    [i \in 1..n |-> R(1 + (i % 2))],
                    [i \in 1..n |-> R(1 + (c1[i][1] % MaxCat))]} :
           df = Table([i \in 1..n |-> R(i)], [i \in 1..n |-> R(1)], c1, c2)
  /\ sv = <<1, 1, 1>>
  /\ InitRest

SpecEnc == InitEnc /\ [][Next]_vars

\* SpecPca: the singular spectrum varies; x1 is constant or strictly
\* increasing, c1 alternates and c2 is constant
InitPca ==
  /\ \E n \in 1..MaxRowsPca :
       \E x \in {[i \in 1..n |-> R(1)], [i \in 1..n |-> R(i)]} :
         df = Table(x, [i \in 1..n |-> R(i)], [i \in 1..n |-> R(1 + (i % 2))],
                    [i \in 1..n |-> R(1)])
  /\ sv \in Spectra(MaxEv)
  /\ InitRest

SpecPca == InitPca /\ [][Next]_vars
(* ======================= properties ======================= *)
Count(ev) == Cardinality({i \in 1..Len(log) : log[i] = ev})
Pos(ev) == CHOOSE i \in 1..Len(log) : log[i] = ev
Happened(ev) == \E i \in 1..Len(log) : log[i] = ev

\* line 20 has completed without raising
Imputed == num_imputer.fitted /\ error.line # 20

\* m is the arithmetic mean of the observed cells of the column as read
IsObservedMean(m, col) ==
  LET present == SelectNotNaN(orig.data[col])
  IN RMul(m, R(Len(present))) = RSum(present)

\* C9: once line 20 has run, every numeric column with an observed value has
\* no missing cell, each cell that was missing holds the arithmetic mean of
\* the cells that were observed, and each observed cell is unchanged
C9_ImputationFillsMean ==
  Imputed =>
    \A col \in numeric_columns :
      SelectNotNaN(orig.data[col]) # <<>> =>
        \A i \in 1..NRows(df) :
          /\ ~IsNaN(df.data[col][i])
          /\ IsNaN(orig.data[col][i]) => IsObservedMean(df.data[col][i], col)
          /\ ~IsNaN(orig.data[col][i]) => df.data[col][i] = orig.data[col][i]

\* a column with both missing and observed cells, whose mean is not a cell
\* value, has been imputed
C9_Witness ==
  /\ Imputed
  /\ \E i, j \in 1..NRows(df) :
       /\ IsNaN(orig.data["x1"][i]) /\ ~IsNaN(orig.data["x1"][j])
       /\ df.data["x1"][i] = <<3, 2>>

\* C10: the imputer is fit once, before the split, and never again; after
\* the split a training cell that was missing holds the mean of the observed
\* cells of ALL rows of the table, test rows included
C10_ImputeOnceBeforeSplit ==
  /\ Count("imputer.fit") <= 1
  /\ Happened("split") =>
       /\ Count("imputer.fit") = 1
       /\ Pos("imputer.fit") < Pos("split")
       /\ \A i \in 1..NRows(X_train) :
            LET r == X_train.index[i]
            IN /\ IsNaN(orig.data["x1"][r]) =>
                    IsObservedMean(X_train.data["x1"][i], "x1")
               /\ IsNaN(orig.data[TargetCol][r]) =>
                    IsObservedMean(y_train.data[i], TargetCol)

\* a training row was filled with a mean that a test row contributed to: the
\* mean of the observed training cells alone is different
C10_Witness ==
  /\ Happened("split")
  /\ \E i \in 1..NRows(X_train) :
       LET trainObs == SelectNotNaN([j \in 1..NRows(X_train) |->
                                       orig.data["x1"][X_train.index[j]]])
       IN /\ IsNaN(orig.data["x1"][X_train.index[i]])
          /\ trainObs # <<>>
          /\ X_train.data["x1"][i] # RMean(trainObs)
          /\ \E t \in 1..NRows(X_test) : ~IsNaN(orig.data["x1"][X_test.index[t]])

(* ---------------- scaler ---------------- *)
\* the column of a frame, as a sequence
TrainCol(col) == X_train.data[col]

\* m and v are the mean and the population variance of the sequence s
IsMeanOf(m, s) == RMul(m, R(Len(s))) = RSum(s)
IsVarOf(v, s) ==
  LET n == Len(s)
      sq == RSum([i \in 1..n |-> RMul(s[i], s[i])])
  IN RMul(v, R(n * n)) = RSub(RMul(R(n), sq), RMul(RSum(s), RSum(s)))

ScalerStatsFromTraining ==
  scaler.fitted =>
    \A col \in FeatureColumns :
      /\ IsMeanOf(scaler.mean_[col], TrainCol(col))
      /\ IsVarOf(scaler.var_[col], TrainCol(col))

TestScaledWithTrainingStats ==
  Happened("scaler.transform(test)") =>
    \A col \in FeatureColumns : \A i \in 1..NRows(X_test) :
      /\ RAdd(X_test_scaled.data[col][i].c, scaler.mean_[col]) = X_test.data[col][i]
      /\ X_test_scaled.data[col][i].s2 = scaler.scale2_[col]

\* C1: the scaler's mean and variance are those of the training rows, no
\* later step changes the fitted scaler (transforms and dumps included), and
\* the test rows are standardised with the training statistics
C1_ScalerTrainingStatsOnly ==
  /\ [](ScalerStatsFromTraining /\ TestScaledWithTrainingStats)
  /\ [][scaler.fitted => scaler' = scaler]_vars

\* the run has dumped the scaler after standardising a test partition whose
\* own mean differs from the training mean
C1_Witness ==
  /\ files["scaler.pkl"] = "written"
  /\ \E col \in FeatureColumns :
       /\ ~IsMeanOf(scaler.mean_[col], X_test.data[col])
       /\ \E i \in 1..NRows(X_test) : X_test_scaled.data[col][i].c # R(0)

(* ---------------- reducer ---------------- *)
PcaFitOnceOnTrain ==
  /\ pca.n_fits = Count("pca.fit")
  /\ pca.n_fits <= 1
  /\ (pc \in {"pca_test", "dump_scaler", "dump_pca", "done"}
        \/ error.line \in {44, 45}) => pca.n_fits = 1
  /\ pca.fitted =>
       /\ pca.fit_on = X_train_scaled
       /\ X_train_scaled.index = X_train.index
       /\ Pos("scaler.fit") < Pos("pca.fit")
  /\ Happened("scaler.transform(test)") /\ Happened("pca.fit") =>
       Pos("scaler.fit") < Pos("scaler.transform(test)")
  /\ Happened("pca.transform(test)") =>
       /\ Pos("pca.fit") < Pos("pca.transform(test)")
       /\ X_test_pca.by = X_train.index
       /\ X_test_pca.index = X_test.index
       /\ X_test_pca.k = pca.n_components_

C3_BothArtifactsOrNone ==
  pc \in {"done", "failed"} =>
    \/ pc = "done" /\ \A f \in DOMAIN files : files[f] = "written"
    \/ pc = "failed" /\ error # NoError /\ \A f \in DOMAIN files : files[f] # "written"

(* ---------------- number of components ---------------- *)
\* C4 as stated: k is the least k whose cumulative ratio is >= 0.8
C4_MinKReaching ==
  pca.fitted =>
    LET ev == pca.explained_variance_
        k == pca.n_components_
    IN /\ k \in 1..Len(ev)
       /\ 5 * CumSum(ev, k) >= 4 * SumSeq(ev)
       /\ k > 1 => 5 * CumSum(ev, k - 1) < 4 * SumSeq(ev)

\* C4 (amended): with a non-zero total variance, k is the least k whose
\* cumulative explained-variance ratio is strictly greater than 0.8; a
\* prefix whose ratio equals 0.8 exactly is not enough
C4_MinKExceeding ==
  pca.fitted /\ SumSeq(pca.explained_variance_) > 0 =>
    LET ev == pca.explained_variance_
        k == pca.n_components_
    IN /\ k \in 1..Len(ev)
       /\ 5 * CumSum(ev, k) > 4 * SumSeq(ev)
       /\ k > 1 => 5 * CumSum(ev, k - 1) <= 4 * SumSeq(ev)

\* the first k-1 components explain exactly 0.8 of the variance
C4_Witness ==
  /\ pca.fitted
  /\ pca.n_components_ > 1
  /\ 5 * CumSum(pca.explained_variance_, pca.n_components_ - 1)
       = 4 * SumSeq(pca.explained_variance_)

(* ---------------- split ---------------- *)
IsPartition ==
  LET n == NRows(features)
  IN /\ Range(X_train.index) \cup Range(X_test.index) = 1..n
     /\ Range(X_train.index) \cap Range(X_test.index) = {}
     /\ Cardinality(Range(X_train.index)) = NRows(X_train)
     /\ Cardinality(Range(X_test.index)) = NRows(X_test)

\* C5 as stated: every row count is split, into exactly 80% and 20%
C5_SplitExact ==
  /\ error.line # 32
  /\ Happened("split") =>
       /\ IsPartition
       /\ 5 * NRows(X_train) = 4 * NRows(features)
       /\ 5 * NRows(X_test) = NRows(features)

\* C5 (amended): a table of n >= 2 rows is split into disjoint training and
\* test label sets that cover all rows, the test set holding ceil(0.2 n)
\* rows and the training set the other n - ceil(0.2 n); a table of one row
\* is not split, line 32 raises
C5_SplitCeil ==
  /\ error.line = 32 => NRows(features) = 1
  /\ Happened("split") =>
       /\ NRows(features) >= 2
       /\ IsPartition
       /\ 5 * NRows(X_test) >= NRows(features)
       /\ 5 * (NRows(X_test) - 1) < NRows(features)
       /\ NRows(X_train) = NRows(features) - NRows(X_test)

\* a split that is not 80/20: the row count is not a multiple of 5
C5_Witness ==
  /\ Happened("split")
  /\ 5 * NRows(X_test) > NRows(features)
  /\ NRows(X_train) >= 2

\* C6: row i of the training (test) features and entry i of the training
\* (test) target carry the same row label, and both hold the cells of that
\* row of the table
C6_SplitKeepsRowsPaired ==
  Happened("split") =>
    /\ X_train.index = y_train.index
    /\ X_test.index = y_test.index
    /\ \A i \in 1..NRows(X_train) :
         /\ \A col \in FeatureColumns :
              X_train.data[col][i] = df.data[col][X_train.index[i]]
         /\ y_train.data[i] = df.data[TargetCol][y_train.index[i]]
    /\ \A i \in 1..NRows(X_test) :
         /\ \A col \in FeatureColumns :
              X_test.data[col][i] = df.data[col][X_test.index[i]]
         /\ y_test.data[i] = df.data[TargetCol][y_test.index[i]]

\* a shuffled training partition whose rows have different targets
C6_Witness ==
  /\ Happened("split")
  /\ NRows(X_train) >= 2
  /\ X_train.index[1] > X_train.index[2]
  /\ y_train.data[1] # y_train.data[2]

(* ---------------- zero variance ---------------- *)
ZeroVarianceCols ==
  {col \in FeatureColumns :
     \A i, j \in 1..NRows(X_train) : X_train.data[col][i] = X_train.data[col][j]}

\* C7 as stated: with a zero-variance training column, line 36 raises and
\* the run stops before the reducer fit and before any file is written
C7_ZeroVarianceRaises ==
  (Happened("split") /\ pc # "scale_train" /\ ZeroVarianceCols # {}) =>
    /\ pc = "failed" /\ error.line = 36
    /\ ~pca.fitted
    /\ \A f \in DOMAIN files : files[f] = "untouched"

\* C7 (amended): a zero-variance training column does not make the scaler
\* fit fail: its variance is 0, its scale is taken as 1, its standardised
\* training cells are all 0, and the run goes on past line 36 to the reducer
\* fit (a run that has ended in an error had already fitted the reducer)
C7_ZeroVarianceScaledByOne ==
  Happened("scaler.fit") =>
    /\ \A col \in ZeroVarianceCols :
         /\ scaler.var_[col] = R(0)
         /\ scaler.scale2_[col] = R(1)
         /\ \A i \in 1..NRows(X_train) :
              X_train_scaled.data[col][i] = [c |-> R(0), s2 |-> R(1)]
    /\ ZeroVarianceCols # {} =>
         /\ pc \in {"scale_test", "pca_train", "pca_test", "dump_scaler",
                    "dump_pca", "done", "failed"}
         /\ pc = "failed" => error.line \in {44, 45} /\ pca.fitted

\* a completed run with a zero-variance column next to a varying one
C7_Witness ==
  /\ pc = "done"
  /\ ZeroVarianceCols # {}
  /\ ZeroVarianceCols # FeatureColumns

(* ---------------- label encoding ---------------- *)
EncodedCols == {categorical_columns[j] : j \in 1..(col_i - 1)}

\* C8: for each encoded column the codes are 0..d-1 for its d distinct
\* values and preserve the order of the values (so equal values share a code
\* and different values do not: the codes are fixed by the column alone);
\* right after a column is encoded, the encoder's classes_ decode each code
\* to the value it replaced
C8_EncodingBijectionPerColumn ==
  /\ \A col \in EncodedCols :
       /\ Range(df.data[col])
            = {R(c) : c \in 0..(Cardinality(Range(orig.data[col])) - 1)}
       /\ \A r1, r2 \in 1..NRows(df) :
            RLess(orig.data[col][r1], orig.data[col][r2])
              <=> RLess(df.data[col][r1], df.data[col][r2])
  /\ (col_i > 1 /\ le.fitted) =>
       LET col == categorical_columns[col_i - 1]
       IN \A r \in 1..NRows(df) :
            le.classes_[df.data[col][r][1] + 1] = orig.data[col][r]

\* both columns are encoded and one value has different codes in the two
C8_Witness ==
  /\ col_i = 3
  /\ \E r1, r2 \in 1..NRows(df) :
       /\ orig.data["c1"][r1] = orig.data["c2"][r2]
       /\ df.data["c1"][r1] # df.data["c2"][r2]
====
